---- MODULE Spec2Model ----
(***************************************************************************)
(* ChatInterface (src/src/components/ChatInterface.tsx): the message       *)
(* store, the text input, the generating flag, the chat_stream requests    *)
(* in flight, the chat-response fragment listener and the lifetime of its  *)
(* subscription (listen on mount, unlisten on teardown).                   *)
(*                                                                         *)
(* Text is a sequence of one-character strings.  Every React event         *)
(* handler runs to completion on the UI event loop, so a handler together  *)
(* with the state updates it queues is one action.                         *)
(***************************************************************************)
EXTENDS Integers, Sequences, FiniteSets, TLC

(* ------------------------------ bounds --------------------------------- *)
MaxInput == 2      \* longest text the input box holds
MaxSends == 2      \* accepted submits in one behaviour
MaxFrags == 2      \* chat-response events in one behaviour
MaxClock == 2      \* largest value Date.now() returns

(* ----------------------------- alphabets ------------------------------- *)
Letters == {"a"}
WhiteSpace == {" ", "\n"}
Keys == Letters \cup {" ", "Enter"}
Payloads == {<<"x">>, <<"y">>}

VARIABLES
  messages,      \* useState<Message[]>: the message store
  inputValue,    \* useState<string>: the text of the textarea
  isGenerating,  \* useState<boolean>: the generating flag
  requests,      \* the chat_stream calls issued, in order, with their outcome
  now,           \* the last value Date.now() returned
  sends,         \* history: per send, its placeholder's position and the
                 \*   fragments that arrived while it was the latest send
  fragCount,     \* history: number of chat-response events delivered
  defaultPrevented,  \* e.defaultPrevented of the last keydown event
  mounted,       \* the component is mounted (its effect cleanup has not run)
  listenPending, \* the promise returned by listen() has not resolved
  listeners      \* number of chat-response handlers registered and not released

lifecycle == <<mounted, listenPending, listeners>>

vars == <<messages, inputValue, isGenerating, requests, now, sends,
          fragCount, defaultPrevented, mounted, listenPending, listeners>>

(* ------------------------------ helpers -------------------------------- *)
ErrorString == <<"Sorry, I encountered an error. Please try again.">>

NoDuration == <<>>

RECURSIVE TrimStart(_)
TrimStart(s) ==
  IF s # <<>> /\ Head(s) \in WhiteSpace THEN TrimStart(Tail(s)) ELSE s

RECURSIVE TrimEnd(_)
TrimEnd(s) ==
  IF s # <<>> /\ s[Len(s)] \in WhiteSpace
    THEN TrimEnd(SubSeq(s, 1, Len(s) - 1))
    ELSE s

\* trimStart in place of trim
TrimStartOnly(s) == TrimStart(s)

\* String.prototype.trim
Trim(s) == TrimEnd(TrimStart(s))

\* the textarea's value after its default action puts ch at the caret
InsertAt(s, pos, ch) == SubSeq(s, 1, pos) \o <<ch>> \o SubSeq(s, pos + 1, Len(s))

\* the Message literal of handleKeyDown
UserMessage(trimmedInput, t) ==
  [role |-> "user", content |-> trimmedInput, id |-> t,
   duration |-> NoDuration, isAiMessage |-> FALSE]

\* the Message literal of sendMessage; duration (messages.length * 0.9) in tenths
AiMessage(renderedLength, t) ==
  [role |-> "assistant", content |-> <<>>, id |-> t,
   duration |-> <<renderedLength * 9>>, isAiMessage |-> TRUE]

\* the listener rebuilding the message without its duration
AppendFragmentDroppingDuration(prev, payload) ==
  [i \in 1..Len(prev) |->
     IF prev[i].id = prev[Len(prev)].id /\ prev[i].role = "assistant"
       THEN [role |-> prev[i].role, content |-> prev[i].content \o payload,
             id |-> prev[i].id, duration |-> NoDuration,
             isAiMessage |-> prev[i].isAiMessage]
       ELSE prev[i]]

\* the listener selecting by id alone, without the test of the role
AppendFragmentToAnyRole(prev, payload) ==
  [i \in 1..Len(prev) |->
     IF prev[i].id = prev[Len(prev)].id
       THEN [prev[i] EXCEPT !.content = prev[i].content \o payload]
       ELSE prev[i]]

\* the updater of the chat-response listener
AppendFragment(prev, payload) ==
  [i \in 1..Len(prev) |->
     IF prev[i].id = prev[Len(prev)].id /\ prev[i].role = "assistant"
       THEN [prev[i] EXCEPT !.content = prev[i].content \o payload]
       ELSE prev[i]]

\* the updater of sendMessage's catch block
ReplaceWithError(prev) ==
  [i \in 1..Len(prev) |->
     IF prev[i].id = prev[Len(prev)].id
       THEN [prev[i] EXCEPT !.content = ErrorString]
       ELSE prev[i]]

\* a state setter: React drops the update of a component that is unmounted
SetState(value, current) == IF mounted THEN value ELSE current

\* the isGenerating prop the renderer passes to the MessageBox of message i
BoxIsGenerating(i) == isGenerating /\ messages[i].isAiMessage

\* MessageBox: opacity of the border lines, in tenths
LineOpacity(boxIsGenerating) == IF boxIsGenerating THEN 3 ELSE 10

(* ------------------------------- state --------------------------------- *)
Init ==
  /\ messages = <<>>
  /\ inputValue = <<>>
  /\ isGenerating = FALSE
  /\ requests = <<>>
  /\ now = 1
  /\ sends = <<>>
  /\ fragCount = 0
  /\ defaultPrevented = FALSE
  /\ mounted = TRUE
  /\ listenPending = TRUE
  /\ listeners = 0

(* ------------------------------ actions -------------------------------- *)
\* sendMessage called before the user message is queued
SendMessagePlaceholderFirst(content, t1, t2) ==
  /\ isGenerating' = TRUE
  /\ messages' = messages \o <<AiMessage(Len(messages), t1)>>
                          \o <<UserMessage(content, t2)>>
  /\ requests' = Append(requests, [message |-> content, status |-> "pending"])
  /\ sends' = Append(sends, [slot |-> Len(messages) + 1, arrived |-> <<>>])
  /\ now' = t2

\* sendMessage invoking chat_stream with the raw input text
SendMessageRawInput(content, t1, t2) ==
  /\ isGenerating' = TRUE
  /\ messages' = messages \o <<UserMessage(content, t1)>>
                          \o <<AiMessage(Len(messages), t2)>>
  /\ requests' = Append(requests, [message |-> inputValue, status |-> "pending"])
  /\ sends' = Append(sends, [slot |-> Len(messages) + 2, arrived |-> <<>>])
  /\ now' = t2

\* sendMessage up to its await, called from handleKeyDown: the closure's
\* messages is the store as rendered before the key-press
SendMessage(content, t1, t2) ==
  /\ isGenerating' = TRUE
  /\ messages' = messages \o <<UserMessage(content, t1)>>
                          \o <<AiMessage(Len(messages), t2)>>
  /\ requests' = Append(requests, [message |-> content, status |-> "pending"])
  /\ sends' = Append(sends, [slot |-> Len(messages) + 2, arrived |-> <<>>])
  /\ now' = t2

\* onChange of the textarea
OnChange(value) == inputValue' = value

\* handleKeyDown with setInputValue('') hoisted above the test of trimmedInput
SubmitClearingFirst ==
  LET trimmedInput == Trim(inputValue) IN
  /\ inputValue' = <<>>
  /\ IF trimmedInput # <<>>
       THEN /\ Len(requests) < MaxSends
            /\ \E t1 \in now..MaxClock : \E t2 \in t1..MaxClock :
                 SendMessage(trimmedInput, t1, t2)
            /\ UNCHANGED fragCount
       ELSE UNCHANGED <<messages, isGenerating, requests, now, sends, fragCount>>

\* handleKeyDown refusing a submit while the generating flag is set
SubmitWhenIdle ==
  LET trimmedInput == Trim(inputValue) IN
  IF trimmedInput # <<>> /\ ~isGenerating
    THEN /\ Len(requests) < MaxSends
         /\ inputValue' = <<>>
         /\ \E t1 \in now..MaxClock : \E t2 \in t1..MaxClock :
              SendMessage(trimmedInput, t1, t2)
         /\ UNCHANGED fragCount
    ELSE UNCHANGED <<messages, inputValue, isGenerating, requests,
                     now, sends, fragCount>>

\* handleKeyDown, the branch of Enter without Shift (after preventDefault)
Submit ==
  LET trimmedInput == Trim(inputValue) IN
  IF trimmedInput # <<>>
    THEN /\ Len(requests) < MaxSends
         /\ inputValue' = <<>>
         /\ \E t1 \in now..MaxClock : \E t2 \in t1..MaxClock :
              SendMessage(trimmedInput, t1, t2)
         /\ UNCHANGED fragCount
    ELSE UNCHANGED <<messages, inputValue, isGenerating, requests,
                     now, sends, fragCount>>

\* the textarea's default action for a key-press the handler did not prevent:
\* the character goes in at the caret and onChange fires with the new value
TextareaDefault(key, caret) ==
  /\ Len(inputValue) < MaxInput
  /\ caret \in 0..Len(inputValue)
  /\ OnChange(InsertAt(inputValue, caret, IF key = "Enter" THEN "\n" ELSE key))
  /\ UNCHANGED <<messages, isGenerating, requests, now, sends, fragCount>>

\* handleKeyDown, followed by the textarea's default action when the handler
\* did not call preventDefault
KeyDown(key, shiftKey, caret) ==
  /\ mounted
  /\ defaultPrevented' = (key = "Enter" /\ ~shiftKey)
  /\ UNCHANGED lifecycle
  /\ IF key = "Enter" /\ ~shiftKey
       THEN Submit
       ELSE TextareaDefault(key, caret)

\* the backend emits a chat-response event: it reaches the listener if one is
\* registered, and the listener's setMessages takes effect while mounted
ChatResponse(payload) ==
  /\ fragCount < MaxFrags
  /\ fragCount' = fragCount + 1
  /\ IF listeners > 0 /\ mounted
       THEN /\ messages' = AppendFragment(messages, payload)
            /\ sends' = IF sends = <<>> THEN sends
                        ELSE [sends EXCEPT ![Len(sends)].arrived = @ \o payload]
       ELSE UNCHANGED <<messages, sends>>
  /\ UNCHANGED <<inputValue, isGenerating, requests, now, defaultPrevented>>
  /\ UNCHANGED lifecycle

\* the await of request k returns: sendMessage's finally block
Resolve(k) ==
  /\ requests[k].status = "pending"
  /\ requests' = [requests EXCEPT ![k].status = "resolved"]
  /\ isGenerating' = SetState(FALSE, isGenerating)
  /\ UNCHANGED <<messages, inputValue, now, sends, fragCount, defaultPrevented>>
  /\ UNCHANGED lifecycle

\* sendMessage without its finally block: the catch path leaves the flag set
RejectKeepingFlag(k) ==
  /\ requests[k].status = "pending"
  /\ requests' = [requests EXCEPT ![k].status = "rejected"]
  /\ messages' = SetState(ReplaceWithError(messages), messages)
  /\ UNCHANGED <<isGenerating, inputValue, now, sends, fragCount,
                 defaultPrevented>>
  /\ UNCHANGED lifecycle

\* the await of request k throws: sendMessage's catch and finally blocks
Reject(k) ==
  /\ requests[k].status = "pending"
  /\ requests' = [requests EXCEPT ![k].status = "rejected"]
  /\ messages' = SetState(ReplaceWithError(messages), messages)
  /\ isGenerating' = SetState(FALSE, isGenerating)
  /\ UNCHANGED <<inputValue, now, sends, fragCount, defaultPrevented>>
  /\ UNCHANGED lifecycle

\* the promise of listen() resolves: the handler is registered
ListenResolved ==
  /\ listenPending
  /\ listenPending' = FALSE
  /\ listeners' = listeners + 1
  /\ UNCHANGED <<messages, inputValue, isGenerating, requests, now, sends,
                 fragCount, defaultPrevented, mounted>>

\* the component is torn down: the effect's cleanup runs and chains f => f()
\* on the promise of listen()
Unmount ==
  /\ mounted
  /\ mounted' = FALSE
  /\ UNCHANGED <<messages, inputValue, isGenerating, requests, now, sends,
                 fragCount, defaultPrevented, listenPending, listeners>>

\* the cleanup chaining f => f, which never calls the unlisten function
UnlistenNotCalled ==
  /\ ~mounted
  /\ ~listenPending
  /\ listeners > 0
  /\ UNCHANGED vars

\* the callback chained by the cleanup runs once the promise has resolved:
\* f() releases the handler
Unlisten ==
  /\ ~mounted
  /\ ~listenPending
  /\ listeners > 0
  /\ listeners' = listeners - 1
  /\ UNCHANGED <<messages, inputValue, isGenerating, requests, now, sends,
                 fragCount, defaultPrevented, mounted, listenPending>>

Next ==
  \/ \E key \in Keys : \E shiftKey \in BOOLEAN : \E caret \in 0..MaxInput :
       KeyDown(key, shiftKey, caret)
  \/ \E payload \in Payloads : ChatResponse(payload)
  \/ \E k \in 1..Len(requests) : Resolve(k)
  \/ \E k \in 1..Len(requests) : Reject(k)
  \/ ListenResolved

\* the component while it is mounted
Spec == Init /\ [][Next]_vars

\* the request of some send settles
Settle == \E k \in 1..Len(requests) : Resolve(k) \/ Reject(k)

\* the mounted component with a backend that settles every call
FairSpec == Spec /\ WF_vars(Settle)

\* the component from mount to teardown and after
NextLifetime ==
  \/ Next
  \/ Unmount
  \/ Unlisten

\* the whole lifetime, with an event loop that runs every promise callback
LifetimeSpec ==
  /\ Init
  /\ [][NextLifetime]_vars
  /\ WF_vars(ListenResolved)
  /\ WF_vars(Unlisten)

(* ------------------------- vocabulary of the claims -------------------- *)
\* some character of s is not white space
HasVisibleText(s) == \E i \in 1..Len(s) : s[i] \notin WhiteSpace

\* t is s without its leading and trailing white space
IsTrimmedFormOf(t, s) ==
  \E i \in 1..Len(s) : \E j \in i..Len(s) :
    /\ t = SubSeq(s, i, j)
    /\ s[i] \notin WhiteSpace
    /\ s[j] \notin WhiteSpace
    /\ \A k \in (1..(i - 1)) \cup ((j + 1)..Len(s)) : s[k] \in WhiteSpace

\* the step is an Enter key-press without Shift
EnterStep == \E caret \in 0..MaxInput : KeyDown("Enter", FALSE, caret)

\* the step is an Enter key-press with Shift
ShiftEnterStep == \E caret \in 0..MaxInput : KeyDown("Enter", TRUE, caret)

\* the requests issued and not settled
InFlight == {k \in 1..Len(requests) : requests[k].status = "pending"}

(* --------------------------------- C1 ---------------------------------- *)
\* C1: an Enter key-press without Shift on a text whose trimmed form is not
\* empty appends exactly two messages to the end of the store, a user message
\* holding the trimmed text and then an assistant message with empty content,
\* and leaves the messages already stored as they were.
C1_SubmitAppendsPair ==
  [][ (EnterStep /\ HasVisibleText(inputValue)) =>
        LET n == Len(messages) IN
        /\ Len(messages') = n + 2
        /\ SubSeq(messages', 1, n) = messages
        /\ messages'[n + 1].role = "user"
        /\ IsTrimmedFormOf(messages'[n + 1].content, inputValue)
        /\ messages'[n + 2].role = "assistant"
        /\ messages'[n + 2].content = <<>> ]_vars

\* a second submit, of a text typed with white space around it, has been
\* accepted on a store that already held a settled exchange
C1_Witness ==
  /\ Len(messages) = 4
  /\ messages[2].content = <<"x", "y">>
  /\ messages[3].role = "user" /\ messages[3].content = <<"a">>
  /\ messages[4].role = "assistant" /\ messages[4].content = <<>>
  /\ inputValue = <<>>
  /\ defaultPrevented
  /\ InFlight = {2}

(* --------------------------------- C2 ---------------------------------- *)
\* C2 as stated: Enter on empty or white-space-only text, and Shift+Enter on
\* any text, leave the store, the generating flag and the input text unchanged
\* and issue no request.
C2_AsStated ==
  [][ ((EnterStep /\ ~HasVisibleText(inputValue)) \/ ShiftEnterStep) =>
        UNCHANGED <<messages, isGenerating, inputValue, requests>> ]_vars

\* C2 (amended): Enter on empty or white-space-only text leaves the store, the
\* generating flag and the input text unchanged and issues no request;
\* Shift+Enter leaves the store and the generating flag unchanged and issues
\* no request, and changes the input text only by one line break put into it.
C2_RejectedKeyPress ==
  [][ /\ (EnterStep /\ ~HasVisibleText(inputValue)) =>
           UNCHANGED <<messages, isGenerating, inputValue, requests>>
      /\ ShiftEnterStep =>
           /\ UNCHANGED <<messages, isGenerating, requests>>
           /\ \E p \in 0..Len(inputValue) :
                inputValue' = SubSeq(inputValue, 1, p) \o <<"\n">>
                                \o SubSeq(inputValue, p + 1, Len(inputValue)) ]_vars

\* Enter was pressed last on a white-space-only text that holds a line break
\* from an earlier Shift+Enter, while a request was in flight
C2_Witness ==
  /\ defaultPrevented
  /\ inputValue = <<" ", "\n">>
  /\ isGenerating
  /\ InFlight # {}

\* the position in the store of the placeholder that send k created
Placeholder(k) == sends[k].slot

\* the step is a chat-response event
FragmentStep == \E payload \in Payloads : ChatResponse(payload)

\* the positions whose content the step changes
ChangedContent ==
  {i \in 1..Len(messages) : messages'[i].content # messages[i].content}

(* --------------------------------- C3 ---------------------------------- *)
\* C3: for a send whose call has resolved, the content of the placeholder that
\* send created equals the concatenation, in arrival order, of the fragments
\* that arrived after that send and before any later send.
C3_FragmentsConcatenate ==
  \A k \in 1..Len(requests) :
    requests[k].status = "resolved" =>
      messages[Placeholder(k)].content = sends[k].arrived

(* --------------------------------- C4 ---------------------------------- *)
\* C4: when the call of a send rejects with no other send in flight, the
\* content of that send's placeholder becomes exactly the error string.
C4_RejectReplacesOwnPlaceholder ==
  [][ \A k \in 1..Len(requests) :
        (Reject(k) /\ InFlight = {k}) =>
          messages'[Placeholder(k)].content = ErrorString ]_vars

(* --------------------------------- C5 ---------------------------------- *)
\* C5: the generating flag is true exactly when some request has been issued
\* and has not settled.
C5_FlagIffInFlight == isGenerating <=> (InFlight # {})

(* --------------------------------- C6 ---------------------------------- *)
\* C6: a fragment event changes the content of at most one message, and that
\* message is the last element of the store.
C6_OneOpenMessage ==
  [][ FragmentStep =>
        /\ Cardinality(ChangedContent) <= 1
        /\ ChangedContent \subseteq {Len(messages)} ]_vars

(* --------------------------------- C7 ---------------------------------- *)
\* C7: once the call of a send has resolved or rejected, the content of that
\* send's placeholder never changes again.
C7_SettledIsImmutable ==
  [][ \A k \in 1..Len(requests) :
        requests[k].status # "pending" =>
          messages'[Placeholder(k)].content = messages[Placeholder(k)].content
    ]_vars

(* --------------------------------- C8 ---------------------------------- *)
\* C8: when a call rejects, every message other than the last assistant entry,
\* and every user message in particular, keeps its content.
C8_RejectTouchesLastOnly ==
  [][ (\E k \in 1..Len(requests) : Reject(k)) =>
        \A i \in 1..Len(messages) :
          (i # Len(messages) \/ messages[i].role = "user") =>
            messages'[i].content = messages[i].content ]_vars

(* --------------------------------- C9 ---------------------------------- *)
\* C9: the store is append-only and a message changes only in its content: no
\* step removes or reorders a message, and every message keeps its role, id,
\* duration and isAiMessage.
C9_AppendOnly ==
  [][ /\ Len(messages') >= Len(messages)
      /\ \A i \in 1..Len(messages) :
           /\ messages'[i].role = messages[i].role
           /\ messages'[i].id = messages[i].id
           /\ messages'[i].duration = messages[i].duration
           /\ messages'[i].isAiMessage = messages[i].isAiMessage ]_vars

\* two exchanges are stored, the first placeholder rewritten by a rejection and
\* the second extended by two fragments, and both kept the fields they were
\* created with
C9_Witness ==
  /\ Len(messages) = 4
  /\ messages[2].content = ErrorString
  /\ messages[4].content = <<"x", "y">>
  /\ messages[2].duration = <<0>> /\ messages[4].duration = <<18>>
  /\ messages[1].duration = NoDuration
  /\ messages[2].id < messages[3].id

(* --------------------------------- C10 --------------------------------- *)
\* C10: the generating state passed to a message's box is true only for the
\* placeholder of a send in flight; it is false for every user message and for
\* every assistant message whose request has settled.
C10_OnlyStreamingBoxGenerates ==
  \A i \in 1..Len(messages) :
    BoxIsGenerating(i) => \E k \in InFlight : Placeholder(k) = i

(* --------------------------------- C11 --------------------------------- *)
\* C11: a submit of a non-blank text made while a request is in flight is
\* accepted like one made when idle: it appends a user message and a
\* placeholder and issues one more request, which is pending together with the
\* earlier one.
C11_NoSendingGuard ==
  [][ (EnterStep /\ HasVisibleText(inputValue) /\ InFlight # {}) =>
        /\ Len(messages') = Len(messages) + 2
        /\ messages'[Len(messages) + 1].role = "user"
        /\ messages'[Len(messages) + 2].role = "assistant"
        /\ Len(requests') = Len(requests) + 1
        /\ requests'[Len(requests')].status = "pending"
        /\ \A k \in InFlight : requests'[k].status = "pending" ]_vars

\* two requests are in flight at once
C11_Witness ==
  /\ Cardinality(InFlight) = 2
  /\ Len(messages) = 4
  /\ isGenerating

(* --------------------------------- C12 --------------------------------- *)
\* C12: when two sends overlap, a rejection of one request writes the error
\* string into the placeholder created by that same send and leaves the
\* placeholder of the other send unchanged.
C12_OutcomeOnOwnPlaceholder ==
  [][ \A k \in 1..Len(requests) :
        (Reject(k) /\ Cardinality(InFlight) = 2) =>
          /\ messages'[Placeholder(k)].content = ErrorString
          /\ \A j \in InFlight \ {k} :
               messages'[Placeholder(j)].content =
                 messages[Placeholder(j)].content ]_vars

(* --------------------------------- C13 --------------------------------- *)
\* C13: a fragment event can be handled in every state, the empty store and
\* the idle state included, and it leaves the number of messages and the
\* content of every user message unchanged.
C13_FragmentSparesUserMessages ==
  /\ [](fragCount < MaxFrags => ENABLED FragmentStep)
  /\ [][ FragmentStep =>
           /\ Len(messages') = Len(messages)
           /\ \A i \in 1..Len(messages) :
                messages[i].role = "user" =>
                  messages'[i].content = messages[i].content ]_vars

\* a fragment was appended to a placeholder whose id equals the id of the user
\* message of the same submit, after the request had settled
C13_Witness ==
  /\ Len(messages) = 2
  /\ messages[1].id = messages[2].id
  /\ messages[1].content = <<"a">>
  /\ messages[2].content = <<"x">>
  /\ InFlight = {}
  /\ ~isGenerating

(* --------------------------------- C15 --------------------------------- *)
\* the user messages of the store
UserMessages == {i \in 1..Len(messages) : messages[i].role = "user"}

\* C15: the number of chat_stream requests issued equals the number of user
\* messages in the store; an accepted submit issues exactly one request, which
\* carries the trimmed text that is the content of the user message the same
\* submit appends; no other step issues, repeats or alters a request.
C15_OneRequestPerSubmit ==
  /\ [](Len(requests) = Cardinality(UserMessages))
  /\ [][ IF EnterStep /\ HasVisibleText(inputValue)
           THEN /\ Len(requests') = Len(requests) + 1
                /\ SubSeq(requests', 1, Len(requests)) = requests
                /\ requests'[Len(requests')].message =
                     messages'[Len(messages) + 1].content
                /\ IsTrimmedFormOf(requests'[Len(requests')].message, inputValue)
           ELSE /\ Len(requests') = Len(requests)
                /\ \A k \in 1..Len(requests) :
                     requests'[k].message = requests[k].message ]_vars

\* two requests were issued for two user messages, the first was rejected and
\* was not issued again
C15_Witness ==
  /\ Len(requests) = 2
  /\ Cardinality(UserMessages) = 2
  /\ requests[1].status = "rejected"
  /\ requests[2].status = "resolved"
  /\ requests[1].message = <<"a">>
  /\ requests[2].message = <<"a", "a">>

(* --------------------------------- C17 --------------------------------- *)
\* C17: the store is a sequence of user/assistant pairs: its length is even,
\* every odd position holds a user message with isAiMessage false and every
\* even position an assistant message with isAiMessage true.
C17_UserAssistantPairs ==
  /\ Len(messages) % 2 = 0
  /\ \A i \in 1..Len(messages) :
       IF i % 2 = 1
         THEN messages[i].role = "user" /\ ~messages[i].isAiMessage
         ELSE messages[i].role = "assistant" /\ messages[i].isAiMessage

\* two pairs are stored, after a rejection that rewrote a whole pair and a
\* fragment appended to the last placeholder
C17_Witness ==
  /\ Len(messages) = 4
  /\ messages[1].content = ErrorString
  /\ messages[2].content = ErrorString
  /\ messages[3].content = <<"a">>
  /\ messages[4].content = <<"y">>

(* --------------------------------- C14 --------------------------------- *)
\* C14: the generating flag is false in every state in which all issued calls
\* have settled; when every call eventually settles, a set flag is eventually
\* cleared; and a cleared flag is set again only by an accepted submit.
C14_ReturnsToIdle ==
  /\ [](InFlight = {} => ~isGenerating)
  /\ (isGenerating ~> ~isGenerating)
  /\ [][ (~isGenerating /\ isGenerating') =>
           (EnterStep /\ HasVisibleText(inputValue)) ]_vars

\* two overlapping sends, one resolved and one rejected, have both settled and
\* the flag is clear
C14_Witness ==
  /\ Len(requests) = 2
  /\ requests[1].status = "rejected"
  /\ requests[2].status = "resolved"
  /\ messages[4].content = ErrorString
  /\ ~isGenerating

(* --------------------------------- C16 --------------------------------- *)
\* the handler registered by the effect has been released
Released == ~mounted /\ ~listenPending /\ listeners = 0

\* C16: at most one chat-response handler is registered at any time; teardown
\* is always eventually followed by the release of the handler, also when it
\* happens before the registration has completed; and after the release no
\* fragment event changes the message store.
C16_ScopedSubscription ==
  /\ [](listeners <= 1)
  /\ (~mounted ~> Released)
  /\ [][ (Released /\ FragmentStep) => messages' = messages ]_vars

\* the component was torn down while a request was in flight and a handler
\* was registered, the handler has been released and a fragment event has
\* been emitted since the store last changed
C16_Witness ==
  /\ Released
  /\ InFlight # {}
  /\ fragCount = MaxFrags
  /\ Len(messages) = 2
  /\ messages[2].content = <<"x">>

====
